---------------------------- MODULE Spec2Model ----------------------------
(***************************************************************************)
(* Kwaxel Generator: the pixel-art editor of src/src/KwaxelGenerator.jsx.  *)
(*                                                                         *)
(* The specifications of this module:                                      *)
(*   Spec      the editor: pointer, keyboard, toolbar, sprite and import   *)
(*             events, one action per React event handler (the handler     *)
(*             and the state updates it queues, each updater run once and  *)
(*             committed before the next event, as the production build    *)
(*             does);                                                      *)
(*   ToolSpec  the editor without imports, from the states the default     *)
(*             sprite leaves, with pointer events at two cells;            *)
(*   HistSpec  the editor with the toolbar left alone, in longer runs;     *)
(*   LoadSpec  the editor from its construction, with pointer events at    *)
(*             two cells, the tool and brush selectors and imports;        *)
(*   BrushSpec one painting session with pencil or eraser, every brush     *)
(*             size, on a blank and on loaded buffers;                     *)
(*   FillSpec  floodFill run one loop iteration per step, from every       *)
(*             buffer over two values, origin and colour of a bounded      *)
(*             input set; FillFair adds that the loop keeps running;       *)
(*   MapSpec   one call of cssToPixel, at every zoom of the range input;   *)
(*   CodecSpec imageDataToPixels, pixelsToImageData and back, on a buffer  *)
(*             of samples;                                                 *)
(*   ParseSpec one call of hexToArgb on a short text.                      *)
(*                                                                         *)
(* JavaScript numbers.  The code mixes signed 32-bit values (results of    *)
(* << and |) with unsigned ones (elements of a Uint32Array, results of     *)
(* >>> 0).  A number n in [-2^31, 2^32) is the pair <<hi, lo>> with        *)
(* n = hi * 65536 + lo, lo in 0..65535, hi in -32768..65535; two pairs are *)
(* equal exactly when the numbers are (===).                               *)
(***************************************************************************)
EXTENDS Integers, Sequences, FiniteSets, TLC

(***************************************************************************)
(* Bounds of the model.  The grid and the history cap are scaled down from *)
(* the source's 32 x 32 and 200.                                           *)
(***************************************************************************)
W == 3
H == 2
MAX_HISTORY == 2
MaxEvents == 3        \* events of a run of Spec
MaxHistEvents == 6    \* events of a run of HistSpec
MaxConfig == 1        \* toolbar changes of a run
MaxPending == 2       \* imports awaiting their image at a time
MaxBrushEvents == 2   \* events of a run of BrushSpec
MaxTextLen == 8       \* characters of a colour text given to the parser

Cells == 0 .. (W * H - 1)
Xs == 0 .. (W - 1)
Ys == 0 .. (H - 1)

(***************************************************************************)
(* 32-bit numbers                                                          *)
(***************************************************************************)
Half == 256 * 256

\* ToUint32: x >>> 0, and the conversion of a store into a Uint32Array
ToUint32(n) == <<n[1] % Half, n[2]>>

\* ToInt32: the result type of <<, | on 32-bit operands
ToInt32(n) ==
  LET h == n[1] % Half
  IN  <<IF h >= 32768 THEN h - Half ELSE h, n[2]>>

\* (a << 24) | (r << 16) | (g << 8) | b  for bytes a, r, g, b: a signed value
PackArgb(a, r, g, b) == ToInt32(<<a * 256 + r, g * 256 + b>>)

Zero == <<0, 0>>

\* the channels of an unsigned pixel value
AlphaOf(p) == (p[1] \div 256) % 256
RedOf(p)   == p[1] % 256
GreenOf(p) == (p[2] \div 256) % 256
BlueOf(p)  == p[2] % 256

(***************************************************************************)
(* Colour text.  A colour string is the sequence of its characters after   *)
(* the '#': hex digits are 0..15, any other character is NonHex.           *)
(***************************************************************************)
NonHex == 15 + 1

\* parseInt(two characters, 16), with NaN read as 0: every use is an operand
\* of << or |, which convert NaN to 0
ParseHex2(c1, c2) ==
  IF c1 >= NonHex THEN 0
  ELSE IF c2 >= NonHex THEN c1
  ELSE 16 * c1 + c2

hexToArgb(s) ==
  IF Len(s) = 3 THEN
    PackArgb(255, ParseHex2(s[1], s[1]), ParseHex2(s[2], s[2]),
             ParseHex2(s[3], s[3]))
  ELSE IF Len(s) = 6 THEN
    PackArgb(255, ParseHex2(s[1], s[2]), ParseHex2(s[3], s[4]),
             ParseHex2(s[5], s[6]))
  ELSE IF Len(s) = 8 THEN
    PackArgb(ParseHex2(s[1], s[2]), ParseHex2(s[3], s[4]),
             ParseHex2(s[5], s[6]), ParseHex2(s[7], s[8]))
  ELSE <<65280, 0>>     \* the literal 0xff000000, a positive number

\* n.toString(16).padStart(2, "0") for a byte n
Hex2(n) == <<n \div 16, n % 16>>

\* `#${[r, g, b].map(...).join("")}` of the eyedropper
RgbText(p) == Hex2(RedOf(p)) \o Hex2(GreenOf(p)) \o Hex2(BlueOf(p))

(***************************************************************************)
(* Buffers: Uint32Array(W * H), row-major                                  *)
(***************************************************************************)
toIndex(x, y) == y * W + x

copyPixels(src) == [i \in Cells |-> src[i]]

EmptyBuffer == [i \in Cells |-> Zero]

\* mutant: the red and blue samples change places
pixelsToImageDataBgra(px) ==
  [i \in Cells |->
     LET argb == ToUint32(px[i])
     IN  <<BlueOf(argb), GreenOf(argb), RedOf(argb), AlphaOf(argb)>>]

\* pixelsToImageData: packed values to RGBA samples <<r, g, b, a>>, stored
\* in a Uint8ClampedArray (each is in 0..255, so stored as it is)
pixelsToImageData(px) ==
  [i \in Cells |->
     LET argb == ToUint32(px[i])
     IN  <<RedOf(argb), GreenOf(argb), BlueOf(argb), AlphaOf(argb)>>]

\* imageDataToPixels: RGBA samples <<r, g, b, a>> to packed values, stored
\* in a Uint32Array
imageDataToPixels(data) ==
  [i \in Cells |->
     ToUint32(PackArgb(data[i][4] % 256, data[i][1] % 256,
                       data[i][2] % 256, data[i][3] % 256))]

\* mutant: no test of the coordinates, a store at an index of the array
setPixelUnchecked(buf, x, y, argb) ==
  IF toIndex(x, y) \in Cells
    THEN [buf EXCEPT ![toIndex(x, y)] = ToUint32(argb)]
    ELSE buf

setPixel(buf, x, y, argb) ==
  IF x < 0 \/ y < 0 \/ x >= W \/ y >= H THEN buf
  ELSE [buf EXCEPT ![toIndex(x, y)] = ToUint32(argb)]

\* drawBrush: setPixel at (x + i, y + j) for i, j in -r .. brush - r - 1,
\* the k-th call of the two nested loops being i = k % brush - r,
\* j = k \div brush - r
RECURSIVE DrawFrom(_, _, _, _, _, _)
DrawFrom(buf, brush, x, y, argb, k) ==
  IF k >= brush * brush THEN buf
  ELSE DrawFrom(setPixel(buf, x + (k % brush) - (brush \div 2),
                         y + (k \div brush) - (brush \div 2), argb),
                brush, x, y, argb, k + 1)

\* mutant: the square starts at (x, y)
drawBrushFromCorner(buf, brush, x, y, argb) ==
  DrawFrom(buf, brush, x + brush \div 2, y + brush \div 2, argb, 0)

drawBrush(buf, brush, x, y, argb) == DrawFrom(buf, brush, x, y, argb, 0)

(***************************************************************************)
(* floodFill.  FillStep is one iteration of the while loop: pop, skip when *)
(* out of the grid or not the target, else write and push four neighbours. *)
(***************************************************************************)
\* mutant: the four diagonal cells are pushed as well (an 8-connected fill)
NeighboursDiag(cx, cy) ==
  << <<cx + 1, cy>>, <<cx - 1, cy>>, <<cx, cy + 1>>, <<cx, cy - 1>>,
     <<cx + 1, cy + 1>>, <<cx - 1, cy - 1>>, <<cx + 1, cy - 1>>,
     <<cx - 1, cy + 1>> >>

Neighbours(cx, cy) ==
  << <<cx + 1, cy>>, <<cx - 1, cy>>, <<cx, cy + 1>>, <<cx, cy - 1>> >>

FillStep(buf, stack, target, replacement) ==
  LET top  == stack[Len(stack)]
      rest == SubSeq(stack, 1, Len(stack) - 1)
      cx   == top[1]
      cy   == top[2]
  IN  IF cx < 0 \/ cy < 0 \/ cx >= W \/ cy >= H
        THEN [buf |-> buf, stack |-> rest, wrote |-> FALSE]
      ELSE IF buf[toIndex(cx, cy)] # target
        THEN [buf |-> buf, stack |-> rest, wrote |-> FALSE]
      ELSE [buf   |-> [buf EXCEPT ![toIndex(cx, cy)] = ToUint32(replacement)],
            stack |-> rest \o Neighbours(cx, cy),
            wrote |-> TRUE]

\* A loop that ends at all ends within 4 * W * H + 1 iterations (FillSpec
\* checks it), so running out of FillFuel means the loop never ends.
FillFuel == 4 * W * H + 2

RECURSIVE FillLoop(_, _, _, _, _)
FillLoop(buf, stack, target, replacement, fuel) ==
  IF stack = <<>> THEN [hung |-> FALSE, buf |-> buf]
  ELSE IF fuel = 0 THEN [hung |-> TRUE, buf |-> buf]
  ELSE LET s == FillStep(buf, stack, target, replacement)
       IN  FillLoop(s.buf, s.stack, target, replacement, fuel - 1)

\* the guard of line 311 compares the two numbers as they are (===)
floodFill(buf, x, y, target, replacement) ==
  IF target = replacement THEN [hung |-> FALSE, buf |-> buf]
  ELSE FillLoop(buf, << <<x, y>> >>, target, replacement, FillFuel)

(***************************************************************************)
(* History (lines 260-286)                                                 *)
(***************************************************************************)
\* mutant: no eviction
CapHistoryNone(next) == next

\* mutant: the newest entries are evicted
CapHistoryOldest(next) ==
  IF Len(next) > MAX_HISTORY THEN SubSeq(next, 1, MAX_HISTORY) ELSE next

\* next.length > MAX_HISTORY ? next.slice(next.length - MAX_HISTORY) : next
CapHistory(next) ==
  IF Len(next) > MAX_HISTORY
    THEN SubSeq(next, Len(next) - MAX_HISTORY + 1, Len(next))
    ELSE next

\* pushHistory: the two state updates it queues
pushHistory(h, prevPixels) ==
  [history |-> CapHistory(Append(h, copyPixels(prevPixels))),
   future  |-> <<>>]

\* mutant: undo restores the oldest entry
undoOldest(h, f, px) ==
  IF Len(h) = 0 THEN [history |-> h, future |-> f, pixels |-> px]
  ELSE [history |-> SubSeq(h, 1, Len(h) - 1),
        future  |-> <<copyPixels(px)>> \o f,
        pixels  |-> h[1]]

\* mutant: undo with an empty stack clears the buffer
undoEmptyClears(h, f, px) ==
  IF Len(h) = 0 THEN [history |-> h, future |-> f, pixels |-> EmptyBuffer]
  ELSE [history |-> SubSeq(h, 1, Len(h) - 1),
        future  |-> <<copyPixels(px)>> \o f,
        pixels  |-> h[Len(h)]]

\* undo, with px the pixels of the render that created the callback
undo(h, f, px) ==
  IF Len(h) = 0 THEN [history |-> h, future |-> f, pixels |-> px]
  ELSE [history |-> SubSeq(h, 1, Len(h) - 1),
        future  |-> <<copyPixels(px)>> \o f,
        pixels  |-> h[Len(h)]]

\* mutant: redo takes the entry that the first of the undos displaced
redoLast(h, f, px) ==
  IF Len(f) = 0 THEN [history |-> h, future |-> f, pixels |-> px]
  ELSE [history |-> Append(h, copyPixels(px)),
        future  |-> SubSeq(f, 1, Len(f) - 1),
        pixels  |-> f[Len(f)]]

redo(h, f, px) ==
  IF Len(f) = 0 THEN [history |-> h, future |-> f, pixels |-> px]
  ELSE [history |-> Append(h, copyPixels(px)),
        future  |-> SubSeq(f, 2, Len(f)),
        pixels  |-> f[1]]

(***************************************************************************)
(* Inputs of the model                                                     *)
(***************************************************************************)
Tools == {"pencil", "eraser", "fill", "eyedropper"}
Brushes == {1, 2, 4}                   \* the options of the Brush select
InitColor == <<3, 11, 8, 2, 15, 6>>    \* "#3b82f6"
\* colours the user picks: two of the swatches
Palette == {<<0, 0, 0, 0, 0, 0>>, <<14, 15, 4, 4, 4, 4>>}
\* decoded images, as RGBA samples per cell: one opaque in a single colour
\* (the swatch #ef4444), one with a half-transparent and a transparent cell
Images ==
  { [i \in Cells |-> <<239, 68, 68, 255>>],
    [i \in Cells |-> IF i = 0 THEN <<59, 130, 246, 128>>
                     ELSE IF i = 1 THEN <<0, 0, 0, 0>>
                     ELSE <<59, 130, 246, 255>>] }

(***************************************************************************)
(* State                                                                   *)
(***************************************************************************)
VARIABLES
  pixels,      \* useState pixels: the current buffer
  tool,        \* useState tool
  brush,       \* useState brush
  color,       \* useState color, the text after '#'
  isPainting,  \* useState isPainting
  history,     \* useState history: the undo stack, oldest first
  future,      \* useState future: the redo stack, next redo first
  pending,     \* importFromFile calls awaiting their image, oldest first
  sprite,      \* the default sprite's load: "loading", "loaded", "failed"
  hung,        \* the event loop is stuck in a floodFill that never returns
  nEvents,     \* events handled so far (bounded by limit)
  nConfig,     \* toolbar changes so far (bounded by MaxConfig)
  limit,       \* the number of events this run may handle
  sess,        \* observer: the last painting session
  run,         \* observer: the snapshots pushed since the start
  last,        \* observer: the handler of the last event
  chain,       \* observer: the undos and redos in a row
  nImports,    \* observer: importFromFile calls so far
  refs,        \* observer: the Uint32Array objects behind the buffers
  calc,        \* one call of a pure function: its input and its result
  fbuf, fstack, ftarget, frepl, fpc, forigin, fbuf0, fwrites, fiters,
  ftrunc, fround, fres1      \* FillSpec: one floodFill call, step by step

editorVars == <<pixels, tool, brush, color, isPainting, history, future,
                pending, sprite, hung, nEvents, nConfig, limit>>
obsVars == <<sess, run, last, chain, nImports, refs>>
fillVars == <<fbuf, fstack, ftarget, frepl, fpc, forigin, fbuf0, fwrites,
              fiters, ftrunc, fround, fres1>>
vars == <<editorVars, obsVars, fillVars, calc>>

(***************************************************************************)
(* Observers.  sess and run record what happened, for the properties at    *)
(* the end of the module; no action of the editor reads them.              *)
(*   sess.phase  "none"; "open" after the pointer-down of a session with   *)
(*               a painting tool; "closed" after its pointer-up or -leave; *)
(*               "undone" after an undo that follows at once; "redone"     *)
(*               after a redo that follows that undo at once               *)
(*   sess.pre    the buffer before the session's pointer-down              *)
(*   sess.hist0  the undo stack before the session's pointer-down          *)
(*   sess.post   the buffer when the undo was performed                    *)
(*   sess.n      closed sessions in a row so far, this one included        *)
(*   sess.pencil all of them were drawn with the pencil only               *)
(*   sess.moved  the session had a pointer-move                            *)
(*   run.snaps   the buffers current at each pointer-down since the start, *)
(*               the last MAX_HISTORY + 1 of them                          *)
(*   run.undos   undos performed after the last of them                    *)
(*   run.ok      only pointer sessions and then only undos took place      *)
(*   last        "down", "move", "up", "undo", "redo", "toolbar",          *)
(*               "spriteLoad", "spriteError", "importStart", "importLoad", *)
(*               "importError"; "none" before the first event              *)
(*   chain.phase "undo" after undos in a row that each restored a buffer;  *)
(*               "redo" after redos that follow them in a row, no more of  *)
(*               them than undos; "idle" after an undo or a redo that      *)
(*               found its stack empty; "none" otherwise                   *)
(*   chain.h0, f0, p0  the undo stack, the redo stack and the buffer       *)
(*               before the first of these undos                           *)
(*   chain.u, r  the undos and the redos of the chain so far               *)
(*   nImports    pending[k].id is the value of nImports when the k-th      *)
(*               pending import had started: its rank among the imports    *)
(*   refs        the objects: every Uint32Array the code creates gets a    *)
(*               number, the least one held by no live object              *)
(*   refs.pix    the object that is the pixels state                       *)
(*   refs.hist, refs.fut  the objects in the history and future arrays     *)
(*   refs.heap   the contents of these objects                             *)
(*   refs.target the object the last tool application drew on, 0 if none   *)
(*   refs.from   the object that was the pixels state when it did          *)
(*   refs.held   that object had come out of a stack, by undo or redo      *)
(*   refs.popped the pixels state is an object that came out of a stack    *)
(***************************************************************************)
NoCalc == [op |-> "none"]

NoSess == [phase |-> "none", pre |-> EmptyBuffer, hist0 |-> <<>>,
           post |-> EmptyBuffer, n |-> 0, pencil |-> FALSE,
           moved |-> FALSE]
NoRun == [snaps |-> <<>>, undos |-> 0, ok |-> FALSE]

PaintTools == {"pencil", "eraser", "fill"}

SessDown ==
  IF tool \in PaintTools
    THEN [phase  |-> "open", pre |-> pixels, hist0 |-> history,
          post   |-> EmptyBuffer,
          n      |-> IF sess.phase = "closed" THEN sess.n ELSE 0,
          pencil |-> (sess.phase = "closed" => sess.pencil)
                     /\ tool = "pencil",
          moved  |-> FALSE]
    ELSE NoSess
SessMove ==
  IF sess.phase = "open"
    THEN [sess EXCEPT !.pencil = sess.pencil /\ tool = "pencil",
                      !.moved = TRUE]
    ELSE NoSess
SessUp ==
  IF sess.phase = "open"
    THEN [sess EXCEPT !.phase = "closed", !.n = sess.n + 1]
    ELSE sess
SessUndo ==
  IF sess.phase = "closed"
    THEN [sess EXCEPT !.phase = "undone", !.post = pixels]
    ELSE NoSess
SessRedo ==
  IF sess.phase = "undone" THEN [sess EXCEPT !.phase = "redone"] ELSE NoSess

Range(s) == {s[i] : i \in 1 .. Len(s)}
Restrict(f, S) == [i \in S |-> f[i]]
Live(r) == {r.pix} \cup Range(r.hist) \cup Range(r.fut)
\* the least number that is not in used
FreshId(used) ==
  CHOOSE n \in 1 .. (Cardinality(used) + 1) :
    n \notin used /\ \A m \in 1 .. (n - 1) : m \in used

\* the state after construction: one object, the pixels state
NoRefs(buf) ==
  [pix |-> 1, hist |-> <<>>, fut |-> <<>>, heap |-> [i \in {1} |-> buf],
   target |-> 0, from |-> 0, held |-> FALSE, popped |-> FALSE]

\* undo: the copy of pixels goes to the future array, the last object of
\* the history array becomes the pixels state
RefsUndo ==
  IF refs.hist = <<>>
    THEN [refs EXCEPT !.target = 0, !.from = 0, !.held = FALSE]
    ELSE LET c     == FreshId(Live(refs))
             n     == Len(refs.hist)
             pix1  == refs.hist[n]
             hist1 == SubSeq(refs.hist, 1, n - 1)
             fut1  == <<c>> \o refs.fut
             heap1 == [i \in Live(refs) \cup {c} |->
                         IF i = c THEN refs.heap[refs.pix] ELSE refs.heap[i]]
         IN  [pix    |-> pix1, hist |-> hist1, fut |-> fut1,
              heap   |-> Restrict(heap1,
                                  {pix1} \cup Range(hist1) \cup Range(fut1)),
              target |-> 0, from |-> 0, held |-> FALSE, popped |-> TRUE]

\* redo: the copy of pixels goes to the history array, the first object of
\* the future array becomes the pixels state
RefsRedo ==
  IF refs.fut = <<>>
    THEN [refs EXCEPT !.target = 0, !.from = 0, !.held = FALSE]
    ELSE LET c     == FreshId(Live(refs))
             pix1  == refs.fut[1]
             hist1 == Append(refs.hist, c)
             fut1  == SubSeq(refs.fut, 2, Len(refs.fut))
             heap1 == [i \in Live(refs) \cup {c} |->
                         IF i = c THEN refs.heap[refs.pix] ELSE refs.heap[i]]
         IN  [pix    |-> pix1, hist |-> hist1, fut |-> fut1,
              heap   |-> Restrict(heap1,
                                  {pix1} \cup Range(hist1) \cup Range(fut1)),
              target |-> 0, from |-> 0, held |-> FALSE, popped |-> TRUE]

\* the default sprite's load: imageDataToPixels makes the new pixels state
RefsLoad(buf) ==
  LET n == FreshId(Live(refs))
  IN  [pix    |-> n, hist |-> refs.hist, fut |-> refs.fut,
       heap   |-> [i \in {n} \cup Range(refs.hist) \cup Range(refs.fut) |->
                     IF i = n THEN buf ELSE refs.heap[i]],
       target |-> 0, from |-> 0, held |-> FALSE, popped |-> FALSE]

\* an import's completion: pushHistory stores a copy of the pixels the call
\* started with (contents snapValue), imageDataToPixels makes the new state
RefsImport(snapValue, buf) ==
  LET snap  == FreshId(Live(refs))
      n     == FreshId(Live(refs) \cup {snap})
      hist1 == CapHistory(Append(refs.hist, snap))
  IN  [pix    |-> n, hist |-> hist1, fut |-> <<>>,
       heap   |-> [i \in {n} \cup Range(hist1) |->
                     IF i = n THEN buf
                     ELSE IF i = snap THEN snapValue ELSE refs.heap[i]],
       target |-> 0, from |-> 0, held |-> FALSE, popped |-> FALSE]

NoChain == [phase |-> "none", h0 |-> <<>>, f0 |-> <<>>, p0 |-> EmptyBuffer,
            u |-> 0, r |-> 0]

ChainUndo ==
  IF history = <<>> THEN [NoChain EXCEPT !.phase = "idle"]
  ELSE IF chain.phase = "undo" THEN [chain EXCEPT !.u = chain.u + 1]
  ELSE [phase |-> "undo", h0 |-> history, f0 |-> future, p0 |-> pixels,
        u |-> 1, r |-> 0]
ChainRedo ==
  IF future = <<>> THEN [NoChain EXCEPT !.phase = "idle"]
  ELSE IF chain.phase \in {"undo", "redo"} /\ chain.r < chain.u
    THEN [chain EXCEPT !.phase = "redo", !.r = chain.r + 1]
  ELSE NoChain

KeepLast(s, n) == IF Len(s) > n THEN SubSeq(s, Len(s) - n + 1, Len(s)) ELSE s

RunDown ==
  IF run.ok /\ run.undos = 0
    THEN [run EXCEPT !.snaps = KeepLast(Append(run.snaps, pixels),
                                        MAX_HISTORY + 1)]
    ELSE NoRun
RunMove == IF run.ok /\ run.undos = 0 THEN run ELSE NoRun
RunUndo ==
  IF run.ok
    THEN [run EXCEPT !.undos = IF run.undos > MAX_HISTORY THEN run.undos
                               ELSE run.undos + 1]
    ELSE NoRun
RunRedo == IF run.ok /\ future = <<>> THEN run ELSE NoRun

(***************************************************************************)
(* Painting (lines 289-347)                                                *)
(***************************************************************************)
Scale == 16      \* useState scale: CSS pixels per cell

\* mutant: only the upper end is clamped
clampUpper(v, min, max) == IF max < v THEN max ELSE v

clamp(v, min, max) ==
  LET m == IF max < v THEN max ELSE v IN IF min > m THEN min ELSE m

\* the Zoom range input (lines 483-489)
ZoomMin == 8
ZoomMax == 32

\* cssToPixel at a zoom, with (offX, offY) = (clientX - rect.left,
\* clientY - rect.top) rounded down: floor(v / scale) is the same for v and
\* for floor(v) when scale is a whole number
cssToPixelAt(scale, offX, offY) ==
  [x |-> clamp(offX \div scale, 0, W - 1),
   y |-> clamp(offY \div scale, 0, H - 1)]

\* cssToPixel in the editor, whose zoom stays at its first value
cssToPixel(offX, offY) == cssToPixelAt(Scale, offX, offY)

\* pointer positions: the middle of every cell, and one position beyond
\* each edge of the canvas
OffsetsX == {0 - 3, W * Scale + 3} \cup {x * Scale + 8 : x \in Xs}
OffsetsY == {0 - 3, H * Scale + 3} \cup {y * Scale + 8 : y \in Ys}

\* mutant: the eyedropper returns the copy, with the picked cell cleared
PickColorWrites(prev, x, y) ==
  [hung |-> FALSE, color |-> RgbText(prev[toIndex(x, y)]),
   pixels |-> setPixel(copyPixels(prev), x, y, Zero)]

\* the eyedropper branch (lines 335-344): sets the colour to the picked
\* cell's red, green and blue, and returns prev itself
PickColor(prev, x, y) ==
  [hung |-> FALSE, color |-> RgbText(prev[toIndex(x, y)]), pixels |-> prev]

\* mutant: the eraser writes the current colour with its alpha cleared
PaintUpdaterEraserTint(prev, x, y) ==
  LET next    == copyPixels(prev)
      current == prev[toIndex(x, y)]
      argb    == IF tool = "eraser"
                   THEN <<hexToArgb(color)[1] % 256, hexToArgb(color)[2]>>
                   ELSE hexToArgb(color)
  IN  IF tool = "pencil" \/ tool = "eraser" THEN
        [hung |-> FALSE, color |-> color,
         pixels |-> drawBrush(next, brush, x, y, argb)]
      ELSE IF tool = "fill" THEN
        LET r == floodFill(next, x, y, current, argb)
        IN  [hung |-> r.hung, color |-> color, pixels |-> r.buf]
      ELSE IF tool = "eyedropper" THEN PickColor(prev, x, y)
      ELSE [hung |-> FALSE, color |-> color, pixels |-> next]

\* the updater of handlePaintAt, on the latest pixels prev: the buffer it
\* returns, the colour it sets, and whether it returns at all
PaintUpdater(prev, x, y) ==
  LET next    == copyPixels(prev)
      current == prev[toIndex(x, y)]
      argb    == IF tool = "eraser" THEN Zero ELSE hexToArgb(color)
  IN  IF tool = "pencil" \/ tool = "eraser" THEN
        [hung |-> FALSE, color |-> color,
         pixels |-> drawBrush(next, brush, x, y, argb)]
      ELSE IF tool = "fill" THEN
        LET r == floodFill(next, x, y, current, argb)
        IN  [hung |-> r.hung, color |-> color, pixels |-> r.buf]
      ELSE IF tool = "eyedropper" THEN PickColor(prev, x, y)
      ELSE [hung |-> FALSE, color |-> color, pixels |-> next]

\* mutant: every call pushes, also those of onPointerMove
PaintHistoryAlways(withHistory) == pushHistory(history, pixels)

\* line 329: pushHistory(prev) comes before the branch on the tool
PaintHistory(withHistory) ==
  IF withHistory THEN pushHistory(history, pixels)
  ELSE [history |-> history, future |-> future]

\* mutant: the tool draws on prev itself
PaintTargetPrev(prevId, nextId) == prevId

\* lines 331, 333: the buffer handed to drawBrush and floodFill is next
PaintTarget(prevId, nextId) == nextId

\* the objects of one handlePaintAt call: next (line 325), the copy that
\* pushHistory stores (line 262), the writes of the tool, the buffer returned
RefsPaint(withHistory, result) ==
  LET next   == FreshId(Live(refs))
      snap   == FreshId(Live(refs) \cup {next})
      draws  == tool \in PaintTools
      target == PaintTarget(refs.pix, next)
      hist1  == IF withHistory THEN CapHistory(Append(refs.hist, snap))
                ELSE refs.hist
      fut1   == IF withHistory THEN <<>> ELSE refs.fut
      pix1   == IF tool = "eyedropper" THEN refs.pix ELSE next
      heap1  == [i \in Live(refs) \cup {next, snap} |->
                   IF draws /\ i = target THEN result
                   ELSE IF i = next \/ i = snap THEN refs.heap[refs.pix]
                   ELSE refs.heap[i]]
  IN  [pix    |-> pix1, hist |-> hist1, fut |-> fut1,
       heap   |-> Restrict(heap1, {pix1} \cup Range(hist1) \cup Range(fut1)),
       target |-> IF draws THEN target ELSE 0,
       from   |-> IF draws THEN refs.pix ELSE 0,
       held   |-> draws /\ refs.popped,
       popped |-> tool = "eyedropper" /\ refs.popped]

handlePaintAt(x, y, withHistory) ==
  LET r == PaintUpdater(pixels, x, y)
      h == PaintHistory(withHistory)
  IN  IF r.hung
        THEN /\ hung' = TRUE
             /\ UNCHANGED <<pixels, color, history, future, isPainting,
                            sess, run, chain, refs>>
        ELSE /\ pixels' = r.pixels
             /\ color' = r.color
             /\ history' = h.history
             /\ future' = h.future
             /\ isPainting' = TRUE
             /\ hung' = FALSE
             /\ sess' = IF withHistory THEN SessDown ELSE SessMove
             /\ run' = IF withHistory THEN RunDown ELSE RunMove
             /\ chain' = NoChain
             /\ refs' = RefsPaint(withHistory, r.pixels)

Event(handler) ==
  /\ ~hung
  /\ nEvents < limit
  /\ nEvents' = nEvents + 1
  /\ last' = handler
  /\ UNCHANGED <<nConfig, limit>>

Config ==
  /\ ~hung
  /\ nConfig < MaxConfig
  /\ nConfig' = nConfig + 1
  /\ last' = "toolbar"
  /\ UNCHANGED <<nEvents, limit, pixels, isPainting, history, future, pending,
                 sprite, hung, sess, run, chain, nImports, refs, fillVars, calc>>

(***************************************************************************)
(* Pointer events (lines 350-361, 574-577)                                 *)
(***************************************************************************)
onPointerDown(offX, offY) ==
  /\ Event("down")
  /\ LET c == cssToPixel(offX, offY) IN handlePaintAt(c.x, c.y, TRUE)
  /\ UNCHANGED <<tool, brush, pending, sprite, nImports, fillVars, calc>>

\* mutant: the handler paints whether or not a session is open
onPointerMoveAlways(offX, offY) ==
  /\ Event("move")
  /\ LET c == cssToPixel(offX, offY) IN handlePaintAt(c.x, c.y, FALSE)
  /\ UNCHANGED <<tool, brush, pending, sprite, nImports, fillVars, calc>>

\* line 357: the handler returns at once when not painting
onPointerMove(offX, offY) ==
  /\ Event("move")
  /\ IF ~isPainting
       THEN UNCHANGED <<pixels, color, history, future, isPainting, hung,
                        sess, run, chain, refs>>
       ELSE LET c == cssToPixel(offX, offY) IN handlePaintAt(c.x, c.y, FALSE)
  /\ UNCHANGED <<tool, brush, pending, sprite, nImports, fillVars, calc>>

\* onPointerUp, also bound to onPointerLeave; when not painting it sets
\* isPainting to the value it has, which is no step
onPointerUp ==
  /\ ~hung
  /\ isPainting
  /\ isPainting' = FALSE
  /\ sess' = SessUp
  /\ last' = "up"
  /\ UNCHANGED <<pixels, tool, brush, color, history, future, pending,
                 sprite, hung, nEvents, nConfig, limit, run, chain, nImports,
                 refs, fillVars, calc>>

(***************************************************************************)
(* Keyboard and toolbar (lines 402-418, 425-516, 596-603)                  *)
(***************************************************************************)
Undo ==
  /\ Event("undo")
  /\ LET r == undo(history, future, pixels)
     IN  /\ history' = r.history
         /\ future' = r.future
         /\ pixels' = r.pixels
  /\ sess' = SessUndo
  /\ run' = RunUndo
  /\ chain' = ChainUndo
  /\ refs' = RefsUndo
  /\ UNCHANGED <<tool, brush, color, isPainting, pending, sprite, hung,
                 nImports, fillVars, calc>>

Redo ==
  /\ Event("redo")
  /\ LET r == redo(history, future, pixels)
     IN  /\ history' = r.history
         /\ future' = r.future
         /\ pixels' = r.pixels
  /\ sess' = SessRedo
  /\ run' = RunRedo
  /\ chain' = ChainRedo
  /\ refs' = RefsRedo
  /\ UNCHANGED <<tool, brush, color, isPainting, pending, sprite, hung,
                 nImports, fillVars, calc>>

SetTool(t) ==
  /\ Config
  /\ t # tool
  /\ tool' = t
  /\ UNCHANGED <<brush, color>>

SetBrush(b) ==
  /\ Config
  /\ b # brush
  /\ brush' = b
  /\ UNCHANGED <<tool, color>>

SetColor(c) ==
  /\ Config
  /\ c # color
  /\ color' = c
  /\ UNCHANGED <<tool, brush>>

(***************************************************************************)
(* Images: the default sprite (lines 165-179), import (lines 364-376)      *)
(***************************************************************************)
\* img.onload of the mount effect: no history entry
SpriteLoad(img) ==
  /\ Event("spriteLoad")
  /\ sprite = "loading"
  /\ sprite' = "loaded"
  /\ pixels' = imageDataToPixels(img)
  /\ sess' = NoSess
  /\ run' = IF run.ok /\ run.undos = 0 THEN run ELSE NoRun
  /\ chain' = NoChain
  /\ refs' = RefsLoad(imageDataToPixels(img))
  /\ UNCHANGED <<tool, brush, color, isPainting, history, future, pending,
                 hung, nImports, fillVars, calc>>

SpriteError ==
  /\ Event("spriteError")
  /\ sprite = "loading"
  /\ sprite' = "failed"
  /\ UNCHANGED <<pixels, tool, brush, color, isPainting, history, future,
                 pending, hung, sess, run, chain, nImports, refs,
                 fillVars, calc>>

\* importFromFile up to its await: the call keeps the pixels of the render
\* it was made in
ImportStart(img) ==
  /\ Event("importStart")
  /\ Len(pending) < MaxPending
  /\ nImports' = nImports + 1
  /\ pending' = Append(pending, [snap |-> pixels, img |-> img,
                                 id |-> nImports + 1])
  /\ UNCHANGED <<pixels, tool, brush, color, isPainting, history, future,
                 sprite, hung, sess, run, chain, refs, fillVars, calc>>

RemoveAt(s, k) == SubSeq(s, 1, k - 1) \o SubSeq(s, k + 1, Len(s))

\* img.onload of the k-th pending import: the rest of importFromFile
ImportLoad(k) ==
  /\ Event("importLoad")
  /\ k \in 1 .. Len(pending)
  /\ LET h == pushHistory(history, pending[k].snap)
     IN  /\ history' = h.history
         /\ future' = h.future
  /\ pixels' = imageDataToPixels(pending[k].img)
  /\ pending' = RemoveAt(pending, k)
  /\ sess' = NoSess
  /\ run' = NoRun
  /\ chain' = NoChain
  /\ refs' = RefsImport(pending[k].snap, imageDataToPixels(pending[k].img))
  /\ UNCHANGED <<tool, brush, color, isPainting, sprite, hung, nImports,
                 fillVars, calc>>

\* mutant: a failed load goes on to push the history entry
ImportErrorPushes(k) ==
  /\ Event("importError")
  /\ k \in 1 .. Len(pending)
  /\ LET h == pushHistory(history, pending[k].snap)
     IN  /\ history' = h.history
         /\ future' = h.future
  /\ pending' = RemoveAt(pending, k)
  /\ UNCHANGED <<pixels, tool, brush, color, isPainting, sprite, hung, sess,
                 run, chain, nImports, refs, fillVars, calc>>

\* img.onerror: the promise rejects and the rest of importFromFile never runs
ImportError(k) ==
  /\ Event("importError")
  /\ k \in 1 .. Len(pending)
  /\ pending' = RemoveAt(pending, k)
  /\ UNCHANGED <<pixels, tool, brush, color, isPainting, history, future,
                 sprite, hung, sess, run, chain, nImports, refs, fillVars, calc>>

(***************************************************************************)
(* The editor                                                              *)
(***************************************************************************)
FillIdle ==
  /\ fbuf = EmptyBuffer /\ fstack = <<>> /\ ftarget = Zero /\ frepl = Zero
  /\ fpc = "off" /\ forigin = <<0, 0>> /\ fbuf0 = EmptyBuffer
  /\ fwrites = 0 /\ fiters = 0 /\ ftrunc = FALSE /\ fround = 0
  /\ fres1 = EmptyBuffer

Init ==
  /\ pixels = EmptyBuffer
  /\ tool = "pencil"
  /\ brush = 1
  /\ color = InitColor
  /\ isPainting = FALSE
  /\ history = <<>>
  /\ future = <<>>
  /\ pending = <<>>
  /\ sprite = "loading"
  /\ hung = FALSE
  /\ nEvents = 0
  /\ nConfig = 0
  /\ limit = MaxEvents
  /\ sess = NoSess
  /\ run = [snaps |-> <<>>, undos |-> 0, ok |-> TRUE]
  /\ last = "none"
  /\ chain = NoChain
  /\ nImports = 0
  /\ refs = NoRefs(pixels)
  /\ calc = NoCalc
  /\ FillIdle

Next ==
  \/ \E ox \in OffsetsX, oy \in OffsetsY : onPointerDown(ox, oy)
  \/ \E ox \in OffsetsX, oy \in OffsetsY : onPointerMove(ox, oy)
  \/ onPointerUp
  \/ Undo
  \/ Redo
  \/ \E t \in Tools : SetTool(t)
  \/ \E b \in Brushes : SetBrush(b)
  \/ \E c \in Palette : SetColor(c)
  \/ \E img \in Images : SpriteLoad(img)
  \/ SpriteError
  \/ \E img \in Images : ImportStart(img)
  \/ \E k \in 1 .. MaxPending : ImportLoad(k)
  \/ \E k \in 1 .. MaxPending : ImportError(k)

Spec == Init /\ [][Next]_vars

(***************************************************************************)
(* ToolSpec: the editor once the default sprite has loaded or failed, with *)
(* no import: pointer events at and beyond the two lower corners of the    *)
(* canvas, undo, redo and the toolbar.                                     *)
(***************************************************************************)
ToolOffsetsX == {0 - 3, W * Scale - 8}
ToolOffsetsY == {H * Scale + 3}

ToolInit ==
  /\ \/ sprite = "failed" /\ pixels = EmptyBuffer
     \/ sprite = "loaded" /\ \E img \in Images : pixels = imageDataToPixels(img)
  /\ tool = "pencil"
  /\ brush = 1
  /\ color = InitColor
  /\ isPainting = FALSE
  /\ history = <<>>
  /\ future = <<>>
  /\ pending = <<>>
  /\ hung = FALSE
  /\ nEvents = 0
  /\ nConfig = 0
  /\ limit = MaxEvents
  /\ sess = NoSess
  /\ run = [snaps |-> <<>>, undos |-> 0, ok |-> TRUE]
  /\ last = "none"
  /\ chain = NoChain
  /\ nImports = 0
  /\ refs = NoRefs(pixels)
  /\ calc = NoCalc
  /\ FillIdle

ToolNext ==
  \/ \E ox \in ToolOffsetsX, oy \in ToolOffsetsY : onPointerDown(ox, oy)
  \/ \E ox \in ToolOffsetsX, oy \in ToolOffsetsY : onPointerMove(ox, oy)
  \/ onPointerUp
  \/ Undo
  \/ Redo
  \/ \E t \in Tools : SetTool(t)
  \/ \E b \in Brushes : SetBrush(b)
  \/ \E c \in Palette : SetColor(c)

ToolSpec == ToolInit /\ [][ToolNext]_vars

(***************************************************************************)
(* FillSpec: one floodFill call, one loop iteration per step, followed by  *)
(* a second call with the same colour at the same origin on the result.    *)
(*   fpc      "call" (before line 311), "loop", "done", "off"              *)
(*   fbuf0    the buffer the call started from                             *)
(*   fwrites  cell writes of the call; fiters  its loop iterations         *)
(*   fround   1 or 2; fres1  the result of the first call                  *)
(* The model keeps the top StackCap entries of the work stack.  What it    *)
(* keeps is the top of the code's stack, so the iterations are the code's  *)
(* as long as the kept part is not empty; a call that ends never has more  *)
(* than 3 * W * H + 1 entries, and ftrunc records that entries were cut.   *)
(***************************************************************************)
\* colours to fill with: the opaque "#3b82f6", and "#403b82f6", whose alpha
\* leaves the packed value positive
FillColors == {InitColor, <<4, 0>> \o InitColor}
FillValues == {ToUint32(hexToArgb(c)) : c \in FillColors}

StackCap == 3 * W * H + 1
KeepTop(s) ==
  IF Len(s) > StackCap THEN SubSeq(s, Len(s) - StackCap + 1, Len(s)) ELSE s

Saturate(n) == IF n >= FillFuel THEN FillFuel ELSE n + 1

EditorIdle ==
  /\ pixels = EmptyBuffer /\ tool = "pencil" /\ brush = 1
  /\ color = InitColor /\ isPainting = FALSE /\ history = <<>>
  /\ future = <<>> /\ pending = <<>> /\ sprite = "loading"
  /\ hung = FALSE /\ nEvents = 0 /\ nConfig = 0 /\ limit = 0
  /\ sess = NoSess /\ run = NoRun
  /\ last = "none" /\ chain = NoChain /\ nImports = 0
  /\ refs = NoRefs(pixels)

FillInit ==
  /\ EditorIdle
  /\ calc = NoCalc
  /\ fbuf0 \in [Cells -> FillValues]
  /\ forigin \in Xs \X Ys
  /\ \E c \in FillColors : frepl = hexToArgb(c)
  /\ ftarget = fbuf0[toIndex(forigin[1], forigin[2])]
  /\ fbuf = copyPixels(fbuf0)
  /\ fstack = <<>>
  /\ fpc = "call"
  /\ fwrites = 0
  /\ fiters = 0
  /\ ftrunc = FALSE
  /\ fround = 1
  /\ fres1 = EmptyBuffer

\* line 311, line 312
FillCall ==
  /\ fpc = "call"
  /\ IF ftarget = frepl
       THEN fpc' = "done" /\ fstack' = <<>>
       ELSE fpc' = "loop" /\ fstack' = <<forigin>>
  /\ UNCHANGED <<fbuf, ftarget, frepl, forigin, fbuf0, fwrites, fiters,
                 ftrunc, fround, fres1, editorVars, obsVars, calc>>

\* lines 313-320, one iteration
FillIter ==
  /\ fpc = "loop"
  /\ fstack # <<>>
  /\ LET s == FillStep(fbuf, fstack, ftarget, frepl)
     IN  /\ fbuf' = s.buf
         /\ fstack' = KeepTop(s.stack)
         /\ ftrunc' = (ftrunc \/ Len(s.stack) > StackCap)
         /\ fwrites' = IF s.wrote THEN Saturate(fwrites) ELSE fwrites
  /\ fiters' = Saturate(fiters)
  /\ UNCHANGED <<ftarget, frepl, fpc, forigin, fbuf0, fround, fres1,
                 editorVars, obsVars, calc>>

\* line 313, the stack is empty
FillExit ==
  /\ fpc = "loop"
  /\ fstack = <<>>
  /\ fpc' = "done"
  /\ UNCHANGED <<fbuf, fstack, ftarget, frepl, forigin, fbuf0, fwrites,
                 fiters, ftrunc, fround, fres1, editorVars, obsVars, calc>>

\* handlePaintAt once more with the same tool, colour and cell: the target
\* is read from the result of the first call
FillAgain ==
  /\ fpc = "done"
  /\ fround = 1
  /\ fround' = 2
  /\ fres1' = fbuf
  /\ fbuf0' = fbuf
  /\ fbuf' = copyPixels(fbuf)
  /\ ftarget' = fbuf[toIndex(forigin[1], forigin[2])]
  /\ fpc' = "call"
  /\ fstack' = <<>>
  /\ fwrites' = 0
  /\ fiters' = 0
  /\ ftrunc' = FALSE
  /\ UNCHANGED <<frepl, forigin, editorVars, obsVars, calc>>

FillNext == FillCall \/ FillIter \/ FillExit \/ FillAgain

FillSpec == FillInit /\ [][FillNext]_vars

\* a running loop keeps running
FillFair == FillSpec /\ WF_vars(FillNext)

(***************************************************************************)
(* Properties of floodFill (FillSpec, FillFair)                            *)
(***************************************************************************)
\* the value the call would store equals the value at the origin
SameValue == ftarget = ToUint32(frepl)

\* cells whose value in buf is v and that touch S by an edge
Touching(buf, v, S) ==
  {i \in Cells : /\ buf[i] = v
                 /\ \E j \in S :
                      \/ (i = j + 1 /\ i % W # 0)
                      \/ (j = i + 1 /\ j % W # 0)
                      \/ i = j + W
                      \/ j = i + W}

RECURSIVE Grow(_, _, _)
Grow(buf, v, S) ==
  LET T == S \cup Touching(buf, v, S)
  IN  IF T = S THEN S ELSE Grow(buf, v, T)

\* the 4-connected component of the origin among the cells of its value
Component(buf, o) == Grow(buf, buf[toIndex(o[1], o[2])], {toIndex(o[1], o[2])})

\* Sanity of FillFuel: a call that ran FillFuel iterations is in its loop
\* with work left, in every later state as well (fiters stays at FillFuel);
\* so is a call whose stack had entries cut (ftrunc stays true).
FillFuelSound ==
  /\ fiters = FillFuel => (fpc = "loop" /\ fstack # <<>>)
  /\ ftrunc => (fpc = "loop" /\ fstack # <<>>)

\* C5: fill at a cell that already holds the replacement colour returns the
\* buffer unchanged and writes no cell, for every colour the parser returns.
C5_FillSameColorIsNoOp ==
  SameValue => (fwrites = 0 /\ fbuf = fbuf0)

\* C6: every floodFill call terminates: the work stack becomes empty and
\* the call returns.
C6_FillTerminates == (fpc = "call") ~> (fpc = "done")

\* C7: fill is idempotent: the second call with the same colour at the same
\* origin returns, and returns the result of the first.
C7_FillIdempotent ==
  (fround = 2 /\ fpc = "call") ~> (fround = 2 /\ fpc = "done" /\ fbuf = fres1)

\* C8: when the value at the origin differs from the replacement, the call
\* returns with exactly the cells of the origin's 4-connected component set
\* to the replacement and every other cell as it was.
C8_FillComponent ==
  (fpc = "done" /\ ~SameValue) =>
    \A i \in Cells :
      fbuf[i] = IF i \in Component(fbuf0, forigin) THEN ToUint32(frepl)
                ELSE fbuf0[i]

\* a fill of two or more cells that stops at a diagonal: a cell of the
\* target value outside the component is left as it was
C8_Witness ==
  /\ fpc = "done"
  /\ ~SameValue
  /\ Cardinality(Component(fbuf0, forigin)) >= 2
  /\ \E i \in Cells \ Component(fbuf0, forigin) :
       fbuf0[i] = ftarget /\ fbuf[i] = ftarget

(***************************************************************************)
(* HistSpec: the editor with the toolbar left alone after a tool and a     *)
(* brush were chosen, and the default sprite's load failed, driven through *)
(* longer runs of pointer, undo, redo and import events.                   *)
(***************************************************************************)
HistOffsetsX == {0 - 3, Scale + 8}
HistOffsetsY == {H * Scale + 3}
HistImage == [i \in Cells |-> <<239, 68, 68, 255>>]

HistInit ==
  /\ pixels = EmptyBuffer
  /\ tool \in Tools
  /\ brush \in {1, 2}
  /\ color = InitColor
  /\ isPainting = FALSE
  /\ history = <<>>
  /\ future = <<>>
  /\ pending = <<>>
  /\ sprite = "failed"
  /\ hung = FALSE
  /\ nEvents = 0
  /\ nConfig = 0
  /\ limit = MaxHistEvents
  /\ sess = NoSess
  /\ run = [snaps |-> <<>>, undos |-> 0, ok |-> TRUE]
  /\ last = "none"
  /\ chain = NoChain
  /\ nImports = 0
  /\ refs = NoRefs(pixels)
  /\ calc = NoCalc
  /\ FillIdle

HistNext ==
  \/ \E ox \in HistOffsetsX, oy \in HistOffsetsY : onPointerDown(ox, oy)
  \/ \E ox \in HistOffsetsX, oy \in HistOffsetsY : onPointerMove(ox, oy)
  \/ onPointerUp
  \/ Undo
  \/ Redo
  \/ ImportStart(HistImage)
  \/ \E k \in 1 .. MaxPending : ImportLoad(k)
  \/ \E k \in 1 .. MaxPending : ImportError(k)

HistSpec == HistInit /\ [][HistNext]_vars

(***************************************************************************)
(* Properties of the history and of the imports                            *)
(***************************************************************************)
PointerDownStep == \E ox \in OffsetsX, oy \in OffsetsY : onPointerDown(ox, oy)
PointerMoveStep == \E ox \in OffsetsX, oy \in OffsetsY : onPointerMove(ox, oy)

\* C1: after N >= 1 pencil strokes in a row, each a session of its own, one
\* undo leaves the buffer equal to the buffer before the Nth stroke's
\* pointer-down, and the redo that follows leaves it equal to the buffer
\* after the Nth stroke.
C1_UndoRedoStroke ==
  /\ (sess.pencil /\ sess.n >= 1 /\ sess.phase = "undone")
       => pixels = sess.pre
  /\ (sess.pencil /\ sess.n >= 1 /\ sess.phase = "redone")
       => pixels = sess.post

\* two strokes, then undo and redo: the second stroke is back
C1_Witness ==
  /\ sess.pencil
  /\ sess.n >= 2
  /\ sess.phase = "redone"
  /\ sess.pre # sess.post
  /\ pixels = sess.post

\* C2: a painting session with pencil, eraser or fill adds exactly one entry
\* to the undo stack, at its pointer-down, the buffer before the
\* pointer-down (the oldest entry leaving when the stack was full); its
\* pointer-moves add none; one undo after the session restores that buffer.
C2_OneEntryPerSession ==
  /\ sess.phase \in {"open", "closed"} =>
       /\ Len(history) = IF Len(sess.hist0) < MAX_HISTORY
                           THEN Len(sess.hist0) + 1 ELSE MAX_HISTORY
       /\ history[Len(history)] = sess.pre
       /\ \A i \in 1 .. (Len(history) - 1) :
            history[i] = sess.hist0[Len(sess.hist0) - Len(history) + 1 + i]
  /\ sess.phase = "undone" => pixels = sess.pre

\* a drag that changed the buffer, undone
C2_Witness ==
  /\ sess.phase = "undone"
  /\ sess.moved
  /\ sess.pre # sess.post
  /\ pixels = sess.pre

\* C3: with the eyedropper selected, no pointer event changes the undo stack
\* or the redo stack.
C3_EyedropperKeepsHistory ==
  [][(tool = "eyedropper" /\ (PointerDownStep \/ PointerMoveStep \/ onPointerUp))
       => (history' = history /\ future' = future)]_vars

\* C4: with the eyedropper selected, applying the tool at a cell leaves the
\* current buffer equal to the buffer before.
C4_EyedropperKeepsBuffer ==
  [][(tool = "eyedropper" /\ (PointerDownStep \/ PointerMoveStep))
       => pixels' = pixels]_vars

\* the eyedropper picked a transparent cell of a painted buffer: the one
\* toolbar change selected the tool, so the colour was set by the pick
C4_Witness ==
  /\ tool = "eyedropper"
  /\ nConfig = 1
  /\ color = <<0, 0, 0, 0, 0, 0>>
  /\ pixels # EmptyBuffer

\* C9: the undo stack never holds more than MAX_HISTORY entries.
C9_HistoryCapped == Len(history) <= MAX_HISTORY

\* a redo that brought the undo stack back to the cap
C9_Witness ==
  /\ sess.phase = "redone"
  /\ Len(history) = MAX_HISTORY
  /\ Len(sess.hist0) = MAX_HISTORY

\* C10: after more than MAX_HISTORY pointer sessions with no undo between
\* them, the undo stack holds the buffers from before the last MAX_HISTORY
\* of them, oldest first; k undos in a row go back k of these steps, and
\* from the MAX_HISTORY-th on the buffer stays at the oldest kept one.
C10_CapKeepsNewest ==
  (run.ok /\ Len(run.snaps) > MAX_HISTORY) =>
    LET n == Len(run.snaps)
        k == IF run.undos > MAX_HISTORY THEN MAX_HISTORY ELSE run.undos
    IN  /\ history = SubSeq(run.snaps, n - MAX_HISTORY + 1, n - k)
        /\ k > 0 => pixels = run.snaps[n - k + 1]

\* more undos than the cap: the buffer is the oldest kept snapshot, which
\* is not the evicted one
C10_Witness ==
  /\ run.ok
  /\ Len(run.snaps) > MAX_HISTORY
  /\ run.undos > MAX_HISTORY
  /\ history = <<>>
  /\ pixels = run.snaps[2]
  /\ run.snaps[1] # run.snaps[2]

ImportLoadStep == \E k \in 1 .. MaxPending : ImportLoad(k)
ImportErrorStep == \E k \in 1 .. MaxPending : ImportError(k)

\* C11: every pointer-down, and every pointer-move while painting, that
\* changes the buffer with pencil, eraser or fill, and every import
\* completion, leaves the redo stack empty, also after an undo in the middle
\* of a drag; an undo adds the buffer it replaced to the redo stack and a
\* redo removes the entry it restored, neither empties the stack otherwise.
C11_MutationClearsRedo ==
  [][/\ ((/\ tool \in PaintTools
          /\ PointerDownStep \/ (isPainting /\ PointerMoveStep)
          /\ ~hung'
          /\ pixels' # pixels)
         \/ ImportLoadStep)
          => future' = <<>>
     /\ (Undo /\ history # <<>>) => future' = <<pixels>> \o future
     /\ (Redo /\ future # <<>>) => future' = Tail(future)]_vars

\* C12: after k undos in a row that each restored a buffer and j <= k redos
\* in a row after them, the buffer, the undo stack and the redo stack are
\* those of k - j undos: the redos bring the displaced buffers back oldest
\* first, the reverse of the order of the undos, and after k redos the
\* three are equal to what they were before the first undo.
C12_UndoRedoInverse ==
  chain.phase \in {"undo", "redo"} =>
    LET n == Len(chain.h0)
        d == chain.u - chain.r
    IN  /\ d >= 0 /\ d <= n
        /\ history = SubSeq(chain.h0, 1, n - d)
        /\ pixels = IF d = 0 THEN chain.p0 ELSE chain.h0[n - d + 1]
        /\ future = IF d = 0 THEN chain.f0
                    ELSE SubSeq(chain.h0, n - d + 2, n) \o <<chain.p0>>
                           \o chain.f0

\* two undos and two redos over three different buffers
C12_Witness ==
  /\ chain.phase = "redo"
  /\ chain.u = 2
  /\ chain.r = 2
  /\ chain.h0[1] # chain.h0[2]
  /\ chain.h0[2] # chain.p0
  /\ chain.h0[1] # chain.p0
  /\ pixels = chain.p0
  /\ history = chain.h0

\* C13: undo with an empty undo stack and redo with an empty redo stack
\* change neither the buffer nor the two stacks, and the editor goes on.
C13_EmptyUndoRedoNoOp ==
  [][((Undo /\ history = <<>>) \/ (Redo /\ future = <<>>))
       => (pixels' = pixels /\ history' = history /\ future' = future
           /\ hung' = FALSE)]_vars

\* once the default sprite has loaded: an undo, then a redo, both with
\* their stacks empty
C13_Witness ==
  /\ run.ok
  /\ run.snaps = <<>>
  /\ run.undos = 1
  /\ last = "redo"
  /\ chain.phase = "idle"
  /\ pixels # EmptyBuffer
  /\ history = <<>>
  /\ future = <<>>

\* C14: a load that completes for an import started before a later one
\* changes neither the buffer nor the undo stack nor the redo stack.
C14_StaleImportIgnored ==
  [][\A k \in 1 .. MaxPending :
       (k <= Len(pending) /\ pending[k].id < nImports /\ ImportLoad(k))
         => (pixels' = pixels /\ history' = history /\ future' = future)]_vars

\* C15: a failed load of an import changes neither the buffer nor the undo
\* stack nor the redo stack.
C15_ImportFailureKeepsState ==
  [][ImportErrorStep
       => (pixels' = pixels /\ history' = history /\ future' = future)]_vars

\* an import failed on a painted buffer with a history entry
C15_Witness ==
  /\ last = "importError"
  /\ history # <<>>
  /\ pixels # EmptyBuffer

(***************************************************************************)
(* BrushSpec: a pointer-down and the pointer-moves of its session, with    *)
(* pencil or eraser, every brush size and three colours, on a blank and on *)
(* two imported buffers; the pointer is beyond the left edge, in the       *)
(* second column or beyond the right edge, and above or below the canvas.  *)
(***************************************************************************)
BrushOffsetsX == {0 - 3, Scale + 8, W * Scale + 3}
BrushOffsetsY == {0 - 3, H * Scale + 3}

BrushBuffers == {EmptyBuffer} \cup {imageDataToPixels(img) : img \in Images}

BrushInit ==
  /\ pixels \in BrushBuffers
  /\ sprite = IF pixels = EmptyBuffer THEN "failed" ELSE "loaded"
  /\ tool \in {"pencil", "eraser"}
  /\ brush \in Brushes
  /\ color \in {InitColor} \cup Palette
  /\ isPainting = FALSE
  /\ history = <<>>
  /\ future = <<>>
  /\ pending = <<>>
  /\ hung = FALSE
  /\ nEvents = 0
  /\ nConfig = 0
  /\ limit = MaxBrushEvents
  /\ sess = NoSess
  /\ run = [snaps |-> <<>>, undos |-> 0, ok |-> TRUE]
  /\ last = "none"
  /\ chain = NoChain
  /\ nImports = 0
  /\ refs = NoRefs(pixels)
  /\ calc = NoCalc
  /\ FillIdle

BrushNext ==
  \/ \E ox \in BrushOffsetsX, oy \in BrushOffsetsY : onPointerDown(ox, oy)
  \/ \E ox \in BrushOffsetsX, oy \in BrushOffsetsY : onPointerMove(ox, oy)
  \/ onPointerUp

BrushSpec == BrushInit /\ [][BrushNext]_vars

(***************************************************************************)
(* LoadSpec: the editor from its construction, through the default         *)
(* sprite's load, pointer events at two cells, undo, redo, the tool and    *)
(* brush selectors and imports.                                            *)
(***************************************************************************)
LoadNext ==
  \/ \E ox \in HistOffsetsX, oy \in HistOffsetsY : onPointerDown(ox, oy)
  \/ \E ox \in HistOffsetsX, oy \in HistOffsetsY : onPointerMove(ox, oy)
  \/ onPointerUp
  \/ Undo
  \/ Redo
  \/ \E t \in Tools : SetTool(t)
  \/ \E b \in Brushes : SetBrush(b)
  \/ \E img \in Images : SpriteLoad(img)
  \/ SpriteError
  \/ ImportStart(HistImage)
  \/ \E k \in 1 .. MaxPending : ImportLoad(k)
  \/ \E k \in 1 .. MaxPending : ImportError(k)

LoadSpec == Init /\ [][LoadNext]_vars

(***************************************************************************)
(* Properties of the tools and of the pointer handlers                     *)
(***************************************************************************)
\* the in-grid cells of the s-by-s square whose first column is
\* x - floor(s / 2) and whose first row is y - floor(s / 2)
Footprint(x, y, s) ==
  {toIndex(cx, cy) :
     cx \in {v \in Xs : v >= x - s \div 2 /\ v <= x - s \div 2 + s - 1},
     cy \in {v \in Ys : v >= y - s \div 2 /\ v <= y - s \div 2 + s - 1}}

\* 0xFFrrggbb for the six digits of a colour text
Opaque(c) ==
  <<255 * 256 + 16 * c[1] + c[2],
    (16 * c[3] + c[4]) * 256 + 16 * c[5] + c[6]>>

LoadDownStep ==
  \E ox \in HistOffsetsX, oy \in HistOffsetsY : onPointerDown(ox, oy)
LoadMoveStep ==
  \E ox \in HistOffsetsX, oy \in HistOffsetsY : onPointerMove(ox, oy)

\* a pointer event at (ox, oy) that applies the tool
PaintsAt(ox, oy) ==
  /\ onPointerDown(ox, oy) \/ (isPainting /\ onPointerMove(ox, oy))
  /\ ~hung'

\* C16: the pencil at (x, y) with brush size s sets exactly the in-grid
\* cells of the s-by-s square from column x - floor(s/2) and row
\* y - floor(s/2) to the colour with alpha 0xFF, and leaves every other cell
\* as it was; on the blank buffer with size 1 and colour #3b82f6 the cell
\* y * W + x is the only non-zero one, with value 0xFF3B82F6.
C16_PencilFootprint ==
  [][\A ox \in BrushOffsetsX, oy \in BrushOffsetsY :
       (tool = "pencil" /\ PaintsAt(ox, oy)) =>
         LET c == cssToPixel(ox, oy)
         IN  /\ pixels' = [i \in Cells |->
                             IF i \in Footprint(c.x, c.y, brush)
                               THEN Opaque(color) ELSE pixels[i]]
             /\ AlphaOf(Opaque(color)) = 255
             /\ (pixels = EmptyBuffer /\ brush = 1 /\ color = InitColor)
                  => pixels' = [i \in Cells |->
                                  IF i = c.y * W + c.x
                                    THEN <<65339, 33526>> ELSE Zero]]_vars

\* a pencil of size 2 put down on the blank buffer at a corner: three of
\* its four cells fall outside the grid
C16_Witness ==
  /\ tool = "pencil"
  /\ brush = 2
  /\ sess.phase = "open"
  /\ ~sess.moved
  /\ sess.pre = EmptyBuffer
  /\ Cardinality({i \in Cells : pixels[i] # Zero}) = 1

\* the cells the pencil writes at (x, y) with the current brush and colour
PencilCells(x, y) ==
  LET drawn == drawBrush(EmptyBuffer, brush, x, y, hexToArgb(color))
  IN  {i \in Cells : drawn[i] # Zero}

\* C17: the eraser at (x, y) sets to 0 exactly the cells the pencil writes
\* at (x, y) with the same brush size, whatever the colour, and leaves every
\* other cell as it was.
C17_EraserFootprint ==
  [][\A ox \in BrushOffsetsX, oy \in BrushOffsetsY :
       (tool = "eraser" /\ PaintsAt(ox, oy)) =>
         LET c     == cssToPixel(ox, oy)
             cells == PencilCells(c.x, c.y)
         IN  pixels' = [i \in Cells |->
                          IF i \in cells THEN Zero ELSE pixels[i]]]_vars

\* the eraser of size 2, with a colour other than the first one, cleared
\* some cells of an imported buffer and left others
C17_Witness ==
  /\ tool = "eraser"
  /\ brush = 2
  /\ color # InitColor
  /\ sess.phase = "open"
  /\ \A i \in Cells : sess.pre[i] # Zero
  /\ \E i \in Cells : pixels[i] = Zero
  /\ \E i \in Cells : pixels[i] # Zero

\* C19: isPainting has two values; a pointer-down that returns leaves it
\* true, pointer-up and pointer-leave leave it false, no other event changes
\* it; a pointer-move while it is false changes neither the buffer nor the
\* undo stack nor the redo stack nor the colour.
C19_IdleAndPainting ==
  [][/\ isPainting' \in BOOLEAN
     /\ (LoadDownStep /\ ~hung') => isPainting'
     /\ onPointerUp => ~isPainting'
     /\ (isPainting' # isPainting) => (LoadDownStep \/ onPointerUp)
     /\ (LoadMoveStep /\ ~isPainting)
          => (pixels' = pixels /\ history' = history /\ future' = future
              /\ color' = color /\ ~isPainting')]_vars

\* a pointer-move after the pointer-up of a session that painted
C19_Witness ==
  /\ last = "move"
  /\ ~isPainting
  /\ sess.phase = "closed"
  /\ pixels # sess.pre

\* coordinates around the grid, none of them in it
Outside ==
  {c \in ((0 - 2) .. (W + 1)) \X ((0 - 2) .. (H + 1)) :
     ~(c[1] \in Xs /\ c[2] \in Ys)}

\* C20: the buffer has the W * H cells 0 .. W * H - 1, each an unsigned
\* 32-bit value, in every state; setPixel at a coordinate outside the grid
\* returns the buffer it was given.
C20_GridShape ==
  /\ DOMAIN pixels = Cells
  /\ Cardinality(DOMAIN pixels) = W * H
  /\ \A i \in Cells : /\ pixels[i][1] \in 0 .. (Half - 1)
                      /\ pixels[i][2] \in 0 .. (Half - 1)
  /\ \A c \in Outside :
       setPixel(pixels, c[1], c[2], hexToArgb(color)) = pixels

\* a pencil of size 4 put down on the blank buffer: part of its square was
\* outside the grid, and the cells it left are still blank
C20_Witness ==
  /\ tool = "pencil"
  /\ brush = 4
  /\ last = "down"
  /\ sess.pre = EmptyBuffer
  /\ \E i \in Cells : pixels[i] = Zero
  /\ \E i \in Cells : pixels[i] # Zero

\* C18: every object in the history and future arrays holds the values it
\* was stored with, in every state; each of them, and the pixels state, is
\* an object of its own; and every tool application draws on an object made
\* in that call, which is neither the buffer that was current nor an object
\* in one of the arrays.
C18_SnapshotsImmutable ==
  /\ Len(refs.hist) = Len(history)
  /\ Len(refs.fut) = Len(future)
  /\ \A i \in 1 .. Len(history) : refs.heap[refs.hist[i]] = history[i]
  /\ \A i \in 1 .. Len(future) : refs.heap[refs.fut[i]] = future[i]
  /\ refs.heap[refs.pix] = pixels
  /\ Cardinality(Live(refs)) = Len(refs.hist) + Len(refs.fut) + 1
  /\ refs.target # 0 =>
       /\ refs.target # refs.from
       /\ refs.target \notin Range(refs.hist) \cup Range(refs.fut)

\* a tool drew right after an undo or a redo had made a stored object the
\* pixels state, and changed the values; an older snapshot is in the undo
\* stack, under the copy pushed by this pointer-down
C18_Witness ==
  /\ refs.target # 0
  /\ refs.held
  /\ last = "down"
  /\ Len(history) = 2
  /\ pixels # history[2]
  /\ history[1] # history[2]

(***************************************************************************)
(* MapSpec: one call of cssToPixel, at every zoom of the range input, for  *)
(* every horizontal position from ZoomMax CSS pixels left of the canvas to *)
(* ZoomMax right of it, and vertical positions at and around its edges.    *)
(***************************************************************************)
Zooms == ZoomMin .. ZoomMax
MapOffsetsX(s) == (0 - ZoomMax) .. (W * s + ZoomMax)
MapOffsetsY(s) == {0 - s - 1, 0 - 1, 0, s, H * s - 1, H * s, H * s + s}

MapInit ==
  /\ EditorIdle
  /\ FillIdle
  /\ \E s \in Zooms :
       \E ox \in MapOffsetsX(s), oy \in MapOffsetsY(s) :
         calc = [op |-> "cssToPixel", scale |-> s, offX |-> ox, offY |-> oy,
                 done |-> FALSE, out |-> [x |-> 0, y |-> 0]]

MapApply ==
  /\ calc.op = "cssToPixel"
  /\ ~calc.done
  /\ calc' = [calc EXCEPT !.done = TRUE,
                          !.out = cssToPixelAt(calc.scale, calc.offX,
                                               calc.offY)]
  /\ UNCHANGED <<editorVars, obsVars, fillVars>>

MapNext == MapApply

MapSpec == MapInit /\ [][MapNext]_vars

\* C21: cssToPixel returns a cell of the grid for every pointer position,
\* also left of, above, right of and below the canvas, at every zoom of the
\* range; for a position inside the canvas (0 <= offset < W * scale, and
\* H * scale) the cell is the one that contains it, floor(offset / scale).
C21_MappingInGrid ==
  (calc.op = "cssToPixel" /\ calc.done) =>
    /\ calc.out.x \in Xs
    /\ calc.out.y \in Ys
    /\ (calc.offX >= 0 /\ calc.offX < W * calc.scale) =>
         /\ calc.out.x * calc.scale <= calc.offX
         /\ calc.offX < (calc.out.x + 1) * calc.scale
    /\ (calc.offY >= 0 /\ calc.offY < H * calc.scale) =>
         /\ calc.out.y * calc.scale <= calc.offY
         /\ calc.offY < (calc.out.y + 1) * calc.scale
    /\ calc.offX < 0 => calc.out.x = 0
    /\ calc.offX >= W * calc.scale => calc.out.x = W - 1
    /\ calc.offY < 0 => calc.out.y = 0
    /\ calc.offY >= H * calc.scale => calc.out.y = H - 1

\* at the smallest zoom, a position left of and below the canvas
C21_Witness ==
  /\ calc.op = "cssToPixel"
  /\ calc.done
  /\ calc.scale = ZoomMin
  /\ calc.offX < 0
  /\ calc.offY >= H * calc.scale
  /\ calc.out = [x |-> 0, y |-> H - 1]

(***************************************************************************)
(* CodecSpec: imageDataToPixels, pixelsToImageData and imageDataToPixels   *)
(* again, on a buffer of samples built from four channel values; cell i    *)
(* holds them rotated by i places.                                         *)
(***************************************************************************)
Chan == {0, 1, 127, 128, 254, 255}

Rotate(q, i) == [k \in 1 .. 4 |-> q[((k - 1 + i) % 4) + 1]]

CodecInit ==
  /\ EditorIdle
  /\ FillIdle
  /\ \E r \in Chan, g \in Chan, b \in Chan, a \in Chan :
       calc = [op      |-> "codec", step |-> 0,
               samples |-> [i \in Cells |-> Rotate(<<r, g, b, a>>, i)],
               px      |-> EmptyBuffer,
               back    |-> [i \in Cells |-> <<0, 0, 0, 0>>],
               px2     |-> EmptyBuffer]

CodecPack ==
  /\ calc.op = "codec"
  /\ calc.step = 0
  /\ calc' = [calc EXCEPT !.step = 1,
                          !.px = imageDataToPixels(calc.samples)]
  /\ UNCHANGED <<editorVars, obsVars, fillVars>>

CodecUnpack ==
  /\ calc.op = "codec"
  /\ calc.step = 1
  /\ calc' = [calc EXCEPT !.step = 2, !.back = pixelsToImageData(calc.px)]
  /\ UNCHANGED <<editorVars, obsVars, fillVars>>

CodecRepack ==
  /\ calc.op = "codec"
  /\ calc.step = 2
  /\ calc' = [calc EXCEPT !.step = 3, !.px2 = imageDataToPixels(calc.back)]
  /\ UNCHANGED <<editorVars, obsVars, fillVars>>

CodecNext == CodecPack \/ CodecUnpack \/ CodecRepack

CodecSpec == CodecInit /\ [][CodecNext]_vars

\* C22: for channel values a, r, g, b in 0..255 the packed value is the
\* unsigned a * 2^24 + r * 2^16 + g * 2^8 + b; converting it to RGBA
\* samples gives the four channels back, and converting these samples gives
\* the same packed value, in every cell of the buffer.
C22_PackUnpackInverse ==
  calc.op = "codec" =>
    /\ calc.step >= 1 =>
         \A i \in Cells :
           calc.px[i] = <<calc.samples[i][4] * 256 + calc.samples[i][1],
                          calc.samples[i][2] * 256 + calc.samples[i][3]>>
    /\ calc.step >= 2 => calc.back = calc.samples
    /\ calc.step >= 3 => calc.px2 = calc.px

\* a round trip of a cell whose alpha has its top bit set, with four
\* different channel values
C22_Witness ==
  /\ calc.op = "codec"
  /\ calc.step = 3
  /\ calc.samples[0] = <<1, 127, 254, 128>>
  /\ calc.px[0] = <<128 * 256 + 1, 127 * 256 + 254>>
  /\ calc.px2 = calc.px

(***************************************************************************)
(* ParseSpec: one call of hexToArgb on a text of up to MaxTextLen          *)
(* characters, each the digit 1, the digit f or a letter that is no hex    *)
(* digit, such as z.                                                       *)
(***************************************************************************)
TextChars == {1, 15, NonHex}
Texts == UNION {[1 .. n -> TextChars] : n \in 0 .. MaxTextLen}

ParseInit ==
  /\ EditorIdle
  /\ FillIdle
  /\ \E t \in Texts :
       calc = [op |-> "hexToArgb", text |-> t, done |-> FALSE, out |-> Zero]

ParseApply ==
  /\ calc.op = "hexToArgb"
  /\ ~calc.done
  /\ calc' = [calc EXCEPT !.done = TRUE, !.out = hexToArgb(calc.text)]
  /\ UNCHANGED <<editorVars, obsVars, fillVars>>

ParseNext == ParseApply

ParseSpec == ParseInit /\ [][ParseNext]_vars

\* three, six or eight characters, all of them hex digits
ValidHex(t) == Len(t) \in {3, 6, 8} /\ \A i \in 1 .. Len(t) : t[i] < NonHex

\* C23: for every text that is not three, six or eight hex digits, texts of
\* these lengths with other characters included, hexToArgb returns the
\* number whose unsigned 32-bit value is 0xFF000000.
C23_MalformedIsBlack ==
  (calc.op = "hexToArgb" /\ calc.done /\ ~ValidHex(calc.text))
    => ToUint32(calc.out) = <<255 * 256, 0>>

(***************************************************************************)
(* Properties of an import that completes and of a picked colour           *)
(***************************************************************************)
\* C24: when an import completes, one undo right after it restores the
\* buffer that was current just before the imported buffer replaced it,
\* also when paint sessions took place after the import was started.
C24_UndoAfterImport ==
  [][ImportLoadStep
       => undo(history', future', pixels').pixels = pixels]_vars

\* C25: after the eyedropper is applied at a cell, the current colour parses
\* to the value stored in that cell, and the pencil with brush size 1 at any
\* other cell writes that same 32-bit value there.
C25_PickThenPaintSameValue ==
  [][\A ox \in ToolOffsetsX, oy \in ToolOffsetsY :
       (tool = "eyedropper" /\ PaintsAt(ox, oy)) =>
         LET c      == cssToPixel(ox, oy)
             stored == pixels[toIndex(c.x, c.y)]
             argb   == hexToArgb(color')
         IN  /\ ToUint32(argb) = stored
             /\ \A x \in Xs, y \in Ys :
                  <<x, y>> # <<c.x, c.y>> =>
                    drawBrush(copyPixels(pixels'), 1, x, y,
                              argb)[toIndex(x, y)] = stored]_vars

============================================================================
